---------------------------- MODULE Spec2Model ----------------------------
(***************************************************************************)
(* A model of the web-push client core:                                    *)
(*   - clients/hyper_client.rs : HyperWebPushClient::send, the send        *)
(*     pipeline (request, response head, streamed body under the size      *)
(*     cap, codec result, Retry-After merge);                              *)
(*   - clients/mod.rs          : MAX_RESPONSE_SIZE;                        *)
(*   - vapid/builder.rs        : the key loaders (read_pem), the builders  *)
(*     (from_ec, add_sub_info, add_claim, build).                          *)
(* Code of the crate that is not among the modelled files (the response    *)
(* codec, RetryAfter::from_str, VapidSigner::sign) is modelled from the    *)
(* written specification and marked so where it is defined.                *)
(***************************************************************************)
EXTENDS Integers, Sequences, FiniteSets, TLC

VARIABLES
    \* ---- HyperWebPushClient::send, one entry per call in flight ----
    pc,              \* position of each send
    header,          \* the response's Retry-After header as received
    response_status, \* response.status()
    retry_after,     \* the local `retry_after`
    chunk,           \* the frame last returned by chunks.frame().await
    body,            \* body.len() of the local `body`
    total,           \* data bytes the transport has delivered so far
    response,          \* the local `response` (result of parse_response)
    outcome,         \* what send returned
    \* ---- the VAPID signature builders ----
    now,             \* the clock, in seconds
    pem,             \* the PEM text handed to the loader
    subs,            \* the caller's SubscriptionInfo objects
    loaded,          \* what the last loader call returned
    partials,        \* the PartialVapidSignatureBuilder values the caller holds
    builders,        \* the VapidSignatureBuilder values the caller holds
    built            \* what build returned for each builder

sendVars == <<pc, header, response_status, retry_after, chunk, body, total,
              response, outcome>>

vapidVars == <<now, pem, subs, loaded, partials, builders, built>>

vars == <<sendVars, vapidVars>>

----------------------------------------------------------------------------
(* clients/mod.rs *)

MAX_RESPONSE_SIZE == 64 * 1024

----------------------------------------------------------------------------
(* Bounds *)

\* The body arrives split into up to MaxSplit equal chunks.
MaxSplit == 4

\* The count of delivered bytes is kept up to TotalCap, the most one send can
\* be handed: a full buffer and one frame of the largest size.
TotalCap == 2 * MAX_RESPONSE_SIZE + 1

Saturate(n) == IF n > TotalCap THEN TotalCap ELSE n

----------------------------------------------------------------------------
(* Values *)

None == [kind |-> "None", val |-> 0]
Delay(secs) == [kind |-> "Delay", val |-> secs]
DateTime(t) == [kind |-> "DateTime", val |-> t]

\* Retry-After header values: text is a sequence of characters, or a single
\* token standing for an HTTP date.
NoHeader == [present |-> FALSE, ascii |-> TRUE, text |-> <<>>]
HeaderValue(t) == [present |-> TRUE, ascii |-> TRUE, text |-> t]
OpaqueHeader == [present |-> TRUE, ascii |-> FALSE, text |-> <<>>]

HttpDates == {"Wed, 21 Oct 2015 07:28:00 GMT"}

Headers ==
    {NoHeader, OpaqueHeader, HeaderValue(<<"1", "2", "0">>), HeaderValue(<<"0">>),
     HeaderValue(<<"s", "o", "o", "n">>), HeaderValue(<<"1", "2", "0", "s">>),
     HeaderValue(<<>>), HeaderValue(<<"Wed, 21 Oct 2015 07:28:00 GMT">>)}

Statuses == {201, 500}

\* Frames of the body stream: data of some length, or a frame with no data
\* (trailers).
DataFrame(n) == [kind |-> "data", len |-> n]
Trailers == [kind |-> "trailers", len |-> 0]
NoFrame == [kind |-> "none", len |-> 0]

DataSizes ==
    {0, MAX_RESPONSE_SIZE - 1, MAX_RESPONSE_SIZE, MAX_RESPONSE_SIZE + 1}
        \cup {MAX_RESPONSE_SIZE \div k : k \in 2..MaxSplit}

Frames == {DataFrame(n) : n \in DataSizes} \cup {Trailers}

\* Results: Result<(), WebPushError>
Pending == [kind |-> "Pending", retry_after |-> None, info |-> ""]
Ok == [kind |-> "Ok", retry_after |-> None, info |-> ""]
Err(k) == [kind |-> k, retry_after |-> None, info |-> ""]
ServerError(ra, info) == [kind |-> "ServerError", retry_after |-> ra, info |-> info]
ResponseTooLarge == Err("ResponseTooLarge")
TransportError == Err("TransportError")

CodecResults ==
    {Ok, Err("Unauthorized"), Err("EndpointNotValid"),
     ServerError(None, "e1"), ServerError(None, "e2"),
     ServerError(Delay(30), "e1")}

----------------------------------------------------------------------------
(* error.rs (spec-modelled): RetryAfter::from_str, "either an HTTP date or a
   delay in seconds; parse failure yields an absent hint" *)

Digits == {"0", "1", "2", "3", "4", "5", "6", "7", "8", "9"}

DigitValue(c) ==
    CASE c = "0" -> 0 [] c = "1" -> 1 [] c = "2" -> 2 [] c = "3" -> 3
      [] c = "4" -> 4 [] c = "5" -> 5 [] c = "6" -> 6 [] c = "7" -> 7
      [] c = "8" -> 8 [] c = "9" -> 9

RECURSIVE ParseU64(_)
ParseU64(t) ==
    IF t = <<>> THEN 0
    ELSE 10 * ParseU64(SubSeq(t, 1, Len(t) - 1)) + DigitValue(t[Len(t)])

IsU64(t) == t # <<>> /\ \A i \in 1..Len(t) : t[i] \in Digits

RetryAfter_from_str(t) ==
    IF IsU64(t) THEN Delay(ParseU64(t))
    ELSE IF Len(t) = 1 /\ t[1] \in HttpDates THEN DateTime(t[1])
    ELSE None

----------------------------------------------------------------------------
(* clients/request_builder.rs (spec-modelled): parse_response, an opaque
   codec "(response status, response body bytes) -> success | typed failure" *)

parse_response(status, len) == CodecResults

----------------------------------------------------------------------------
(* clients/hyper_client.rs: HyperWebPushClient::send *)

\* lines 62-66: headers().get(RETRY_AFTER).and_then(to_str().ok()).and_then(from_str)
ExtractRetryAfter(h) ==
    IF ~h.present THEN None
    ELSE IF ~h.ascii THEN None
    ELSE RetryAfter_from_str(h.text)

\* line 75: body.extend_from_slice(data), on this call's own buffer
ExtendShared(b, s, n) == [t \in DOMAIN b |-> b[t] + n]
ExtendNothing(b, s, n) == b
ExtendBody(b, s, n) == [b EXCEPT ![s] = @ + n]

\* line 76: body.len() > MAX_RESPONSE_SIZE
TooLargeGe(len) == len >= MAX_RESPONSE_SIZE
TooLargeNever(len) == FALSE
TooLarge(len) == len > MAX_RESPONSE_SIZE

\* lines 89-97: the merge of the header's hint into the codec's result
MergeAlways(r, ra) ==
    IF r.kind = "ServerError"
    THEN ServerError(ra, r.info)
    ELSE r
MergeRetryAfter(r, ra) ==
    IF r.kind = "ServerError" /\ r.retry_after = None
    THEN ServerError(ra, r.info)
    ELSE r

\* A return hands the caller the result; the local `body` is dropped with it.
Return(s, r) ==
    /\ outcome' = [outcome EXCEPT ![s] = r]
    /\ pc' = [pc EXCEPT ![s] = "done"]
    /\ body' = [body EXCEPT ![s] = 0]

\* line 58: self.client.request(request).await? answers with a response head
ResponseHead(s, hs) ==
    /\ pc[s] = "request"
    /\ \E h \in hs, st \in Statuses :
        /\ header' = [header EXCEPT ![s] = h]
        /\ response_status' = [response_status EXCEPT ![s] = st]
        /\ retry_after' = [retry_after EXCEPT ![s] = ExtractRetryAfter(h)]
    /\ pc' = [pc EXCEPT ![s] = "frame"]
    /\ UNCHANGED <<chunk, body, total, response, outcome>>
    /\ UNCHANGED vapidVars

\* line 58: ... or with an error, which `?` returns
RequestFails(s) ==
    /\ pc[s] = "request"
    /\ Return(s, TransportError)
    /\ UNCHANGED <<header, response_status, retry_after, chunk, total, response>>
    /\ UNCHANGED vapidVars

\* line 73: chunks.frame().await yields Some(Ok(frame))
FrameArrives(s, fs) ==
    /\ pc[s] = "frame"
    /\ \E f \in fs :
        /\ chunk' = [chunk EXCEPT ![s] = f]
        /\ total' = [total EXCEPT ![s] = Saturate(@ + f.len)]
    /\ pc' = [pc EXCEPT ![s] = "got_frame"]
    /\ UNCHANGED <<header, response_status, retry_after, body, response, outcome>>
    /\ UNCHANGED vapidVars

\* lines 73-74: chunks.frame().await yields Some(Err(e)); chunk? returns it
FrameFails(s) ==
    /\ pc[s] = "frame"
    /\ Return(s, TransportError)
    /\ UNCHANGED <<header, response_status, retry_after, chunk, total, response>>
    /\ UNCHANGED vapidVars

\* line 73: chunks.frame().await yields None, the loop ends
BodyEnds(s) ==
    /\ pc[s] = "frame"
    /\ pc' = [pc EXCEPT ![s] = "parse"]
    /\ UNCHANGED <<header, response_status, retry_after, chunk, body, total, response,
                   outcome>>
    /\ UNCHANGED vapidVars

\* lines 74-75: if let Some(data) = chunk.data_ref() { body.extend_from_slice(data)
Extend(s) ==
    /\ pc[s] = "got_frame"
    /\ IF chunk[s].kind = "data"
       THEN /\ body' = ExtendBody(body, s, chunk[s].len)
            /\ pc' = [pc EXCEPT ![s] = "check"]
       ELSE /\ body' = body
            /\ pc' = [pc EXCEPT ![s] = "frame"]
    /\ UNCHANGED <<header, response_status, retry_after, chunk, total, response, outcome>>
    /\ UNCHANGED vapidVars

\* lines 76-78: if body.len() > MAX_RESPONSE_SIZE { return Err(ResponseTooLarge) }
Check(s) ==
    /\ pc[s] = "check"
    /\ IF TooLarge(body[s])
       THEN Return(s, ResponseTooLarge)
       ELSE /\ pc' = [pc EXCEPT ![s] = "frame"]
            /\ UNCHANGED <<outcome, body>>
    /\ UNCHANGED <<header, response_status, retry_after, chunk, total, response>>
    /\ UNCHANGED vapidVars

\* line 85: request_builder::parse_response(response_status, body.to_vec())
Parse(s, rs) ==
    /\ pc[s] = "parse"
    /\ \E r \in parse_response(response_status[s], body[s]) \cap rs :
        response' = [response EXCEPT ![s] = r]
    /\ pc' = [pc EXCEPT ![s] = "merge"]
    /\ UNCHANGED <<header, response_status, retry_after, chunk, body, total, outcome>>
    /\ UNCHANGED vapidVars

\* lines 89-97
Merge(s) ==
    /\ pc[s] = "merge"
    /\ Return(s, MergeRetryAfter(response[s], retry_after[s]))
    /\ UNCHANGED <<header, response_status, retry_after, chunk, total, response>>
    /\ UNCHANGED vapidVars

SendInit(sends) ==
    /\ pc = [s \in sends |-> "request"]
    /\ header = [s \in sends |-> NoHeader]
    /\ response_status = [s \in sends |-> 0]
    /\ retry_after = [s \in sends |-> None]
    /\ chunk = [s \in sends |-> NoFrame]
    /\ body = [s \in sends |-> 0]
    /\ total = [s \in sends |-> 0]
    /\ response = [s \in sends |-> Pending]
    /\ outcome = [s \in sends |-> Pending]

----------------------------------------------------------------------------
(* vapid/builder.rs: values *)

\* The blocks of a PEM text number at most MaxBlocks.
MaxBlocks == 3

\* The clock runs up to MaxTime seconds.
MaxTime == 2

\* JSON values (serde_json::Value) of claims
Absent == [t |-> "absent", s |-> "", n |-> 0]
Str(x) == [t |-> "str", s |-> x, n |-> 0]
Num(x) == [t |-> "num", s |-> "", n |-> x]

ClaimNames == {"aud", "exp", "sub"}
ClaimValues == {Str("mailto:ops@example.com"), Num(123)}
EmptyCustom == [k \in ClaimNames |-> Absent]

\* Private scalars: two valid ones; "zero" is no scalar of the curve.
Keys == {"k1", "k2"}

\* A PEM block: its tag, the DER structure of its contents and the scalar in it.
Block(tag, fmt, key) == [tag |-> tag, fmt |-> fmt, key |-> key]

Tags == {"EC PRIVATE KEY", "PRIVATE KEY", "EC PARAMETERS"}
Contents == {<<"sec1", "k1">>, <<"sec1", "k2">>, <<"sec1", "zero">>,
             <<"pkcs8", "k1">>, <<"junk", "zero">>}
Blocks == {Block(t, c[1], c[2]) : t \in Tags, c \in Contents}

RECURSIVE SeqsUpTo(_, _)
SeqsUpTo(S, n) ==
    IF n = 0 THEN {<<>>}
    ELSE LET shorter == SeqsUpTo(S, n - 1)
         IN shorter \cup {Append(q, x) : q \in shorter, x \in S}

\* The text given to a loader: unreadable (not UTF-8), not parsable as PEM, or
\* a sequence of blocks.
PemText(bs) == [utf8 |-> TRUE, wellformed |-> TRUE, blocks |-> bs]
NotUtf8 == [utf8 |-> FALSE, wellformed |-> FALSE, blocks |-> <<>>]
Malformed == [utf8 |-> TRUE, wellformed |-> FALSE, blocks |-> <<>>]
PemInputs == {PemText(bs) : bs \in SeqsUpTo(Blocks, MaxBlocks)} \cup {NotUtf8, Malformed}

\* resources/vapid_test_key.pem, and the same kind of key in PKCS8
Sec1Fixture == PemText(<<Block("EC PRIVATE KEY", "sec1", "k1")>>)
Pkcs8Fixture == PemText(<<Block("PRIVATE KEY", "pkcs8", "k1")>>)
OtherFixture == PemText(<<Block("EC PARAMETERS", "junk", "zero"),
                          Block("EC PRIVATE KEY", "sec1", "k2")>>)

\* Result<ES256KeyPair, WebPushError>
NotLoaded == [kind |-> "None", key |-> "none"]
KeyOk(k) == [kind |-> "Key", key |-> k]
KeyErr(e) == [kind |-> e, key |-> "none"]

\* Endpoint strings, by their parts: scheme "://" host path "?" query
Endpoint(scheme, host, path, query, legal) ==
    [scheme |-> scheme, host |-> host, path |-> path, query |-> query, legal |-> legal]
EpA == Endpoint("https", "push.example.com", "/wpush/v2/abc", "x=1", TRUE)
EpB == Endpoint("https", "fcm.example.org", "/send/1", "", TRUE)
EpPath == Endpoint("", "", "/wpush/v2/abc", "", TRUE)
EpHost == Endpoint("", "push.example.com", "", "", TRUE)
EpEmpty == Endpoint("", "", "", "", TRUE)
EpSpace == Endpoint("https", "push example.com", "/wpush", "", FALSE)

AllSubs == [a |-> EpA, b |-> EpB, path |-> EpPath, host |-> EpHost,
            empty |-> EpEmpty, space |-> EpSpace]
TwoSubs == [a |-> EpA, b |-> EpB]

----------------------------------------------------------------------------
(* vapid/key.rs (spec-modelled): VapidKey::public_key, "the raw uncompressed
   public key bytes", "stable for a given signing key" *)

public_key(k) == CASE k = "k1" -> "P1" [] k = "k2" -> "P2" [] OTHER -> "none"

----------------------------------------------------------------------------
(* vapid/builder.rs: the loaders *)

\* lines 235-238: EcPrivateKey::try_from(p.contents()), then
\* ES256KeyPair::from_bytes(private_key)
DecodeSec1(p) ==
    IF p.fmt = "sec1" /\ p.key \in Keys
    THEN KeyOk(p.key)
    ELSE KeyErr("InvalidCryptoKeys")

\* line 242: ES256KeyPair::from_pem(&buffer) decodes the text as one PKCS8
\* document: a text holding anything but a single `PRIVATE KEY` block does
\* not decode.
DecodePkcs8(p, buffer) ==
    IF /\ Len(buffer.blocks) = 1
       /\ buffer.blocks[1].tag = "PRIVATE KEY"
       /\ buffer.blocks[1].fmt = "pkcs8"
       /\ buffer.blocks[1].key \in Keys
    THEN KeyOk(buffer.blocks[1].key)
    ELSE KeyErr("InvalidCryptoKeys")

\* line 248
NoRecognizedBlockInvalid == KeyErr("InvalidCryptoKeys")
NoRecognizedBlock == KeyErr("MissingCryptoKeys")

\* lines 231-246: for p in response { match p.tag() { ... } }
RECURSIVE ScanBlocks(_, _)
ScanBlocks(parsed, buffer) ==
    IF parsed = <<>> THEN NoRecognizedBlock
    ELSE LET p == Head(parsed)
         IN IF p.tag = "EC PRIVATE KEY" THEN DecodeSec1(p)
            ELSE IF p.tag = "PRIVATE KEY" THEN DecodePkcs8(p, buffer)
            ELSE ScanBlocks(Tail(parsed), buffer)

\* lines 224-249
read_pem(input) ==
    IF ~input.utf8 THEN KeyErr("Io")
    ELSE IF ~input.wellformed THEN KeyErr("InvalidCryptoKeys")
    ELSE ScanBlocks(input.blocks, input)

----------------------------------------------------------------------------
(* vapid/builder.rs: the builders *)

Duration_from_hours(h) == h * 3600

\* jwt_simple's Claims::with_custom_claims(custom, valid_for), called at time t
with_custom_claims(custom, valid_for, t) ==
    [custom |-> custom, expires_at |-> t + valid_for]

\* A VapidSignatureBuilder. Beside its three fields a record keeps when it
\* was made (created) and the value the caller last passed to add_claim
\* under each name (supplied).
NoBuilder ==
    [present |-> FALSE, claims |-> with_custom_claims(EmptyCustom, 0, 0),
     key |-> "none", subscription_info |-> "none", created |-> 0,
     supplied |-> EmptyCustom]

\* lines 215-221: from_ec, called at time t
from_ec(ec_key, subscription_info, t) ==
    [present |-> TRUE,
     claims |-> with_custom_claims(EmptyCustom, Duration_from_hours(12), t),
     key |-> ec_key, subscription_info |-> subscription_info, created |-> t,
     supplied |-> EmptyCustom]

NoPartial == [present |-> FALSE, key |-> "none"]
Partial(k) == [present |-> TRUE, key |-> k]

\* lines 283-289: add_sub_info, called at time t
add_sub_info(self, subscription_info, t) ==
    [present |-> TRUE,
     claims |-> with_custom_claims(EmptyCustom, Duration_from_hours(12), t),
     key |-> self.key, subscription_info |-> subscription_info, created |-> t,
     supplied |-> EmptyCustom]

\* line 204: self.claims.custom.insert(key.to_string(), val.into())
InsertKeepFirst(bs, b, key, val) ==
    IF bs[b].claims.custom[key] = Absent
    THEN [bs EXCEPT ![b].claims.custom[key] = val]
    ELSE bs
InsertShared(bs, b, key, val) ==
    [c \in DOMAIN bs |->
        IF bs[c].present THEN [bs[c] EXCEPT !.claims.custom[key] = val] ELSE bs[c]]
InsertClaim(bs, b, key, val) == [bs EXCEPT ![b].claims.custom[key] = val]

\* line 209: self.subscription_info.endpoint.parse::<http::Uri>(): an absolute
\* URI, a path alone (origin form) and a host alone (authority form) parse;
\* the empty string, text with illegal characters and other mixes do not.
NoUri == [ok |-> FALSE, scheme |-> "", host |-> "", path |-> "", query |-> ""]
UriOf(e) == [ok |-> TRUE, scheme |-> e.scheme, host |-> e.host, path |-> e.path,
             query |-> e.query]
Uri_from_str(e) ==
    IF ~e.legal THEN NoUri
    ELSE IF e.scheme # ""
    THEN (IF e.host # "" THEN UriOf(e) ELSE NoUri)
    ELSE IF e.host # ""
    THEN (IF e.path = "" /\ e.query = "" THEN UriOf(e) ELSE NoUri)
    ELSE IF e.path # "" THEN UriOf(e)
    ELSE NoUri

\* Result<VapidSignature, WebPushError>, with the decoded payload of the token.
\* `signed` tells whether VapidSigner::sign was called; `builder` and `at`
\* record the builder consumed and the time of the call.
Outcome(kind, signed, aud, exp, custom, auth_k) ==
    [kind |-> kind, signed |-> signed, aud |-> aud, exp |-> exp,
     custom |-> custom, auth_k |-> auth_k]
NoResult == Outcome("None", FALSE, Absent, Absent, EmptyCustom, "none")
BuildErr(kind, signed) == Outcome(kind, signed, Absent, Absent, EmptyCustom, "none")

----------------------------------------------------------------------------
(* vapid/signer.rs (spec-modelled): VapidSigner::sign, "audience = the scheme
   and authority of the destination's endpoint URL", "a claim added with a
   name colliding with a default overrides that default at signing time",
   "returns the signing key's raw public bytes unchanged".  What it does with
   a URI that has no scheme or host is not specified: any result. *)

Audience(uri) == Str(uri.scheme \o "://" \o uri.host)

OtherClaims(custom) ==
    [k \in ClaimNames |-> IF k \in {"aud", "exp"} THEN Absent ELSE custom[k]]

Signed(key, uri, claims) ==
    Outcome("Signature", TRUE,
            IF claims.custom["aud"] # Absent THEN claims.custom["aud"] ELSE Audience(uri),
            IF claims.custom["exp"] # Absent THEN claims.custom["exp"]
            ELSE Num(claims.expires_at),
            OtherClaims(claims.custom), public_key(key))

sign(key, uri, claims) ==
    IF uri.scheme # "" /\ uri.host # ""
    THEN {Signed(key, uri, claims)}
    ELSE {Signed(key, uri, claims), BuildErr("Panic", TRUE), BuildErr("InvalidUri", TRUE)}

----------------------------------------------------------------------------
(* vapid/builder.rs: the operations *)

\* Each name the caller binds a builder to holds one builder, from its
\* construction to the build that consumes it.
NotBuilt == [result |-> NoResult, builder |-> NoBuilder, at |-> 0]
Unused(b) == ~builders[b].present /\ built[b] = NotBuilt

\* lines 91-98: from_pem(pk_pem, subscription_info)
FromPem ==
    \E b \in DOMAIN builders, si \in DOMAIN subs :
        /\ Unused(b)
        /\ loaded' = read_pem(pem)
        /\ builders' = IF loaded'.kind = "Key"
                       THEN [builders EXCEPT ![b] = from_ec(loaded'.key, si, now)]
                       ELSE builders
        /\ UNCHANGED <<now, pem, subs, partials, built>>
        /\ UNCHANGED sendVars

\* lines 107-113: from_pem_no_sub(pk_pem)
FromPemNoSub ==
    \E p \in DOMAIN partials :
        /\ ~partials[p].present
        /\ loaded' = read_pem(pem)
        /\ partials' = IF loaded'.kind = "Key"
                       THEN [partials EXCEPT ![p] = Partial(loaded'.key)]
                       ELSE partials
        /\ UNCHANGED <<now, pem, subs, builders, built>>
        /\ UNCHANGED sendVars

\* line 276: #[derive(Clone)]
Clone ==
    \E p, q \in DOMAIN partials :
        /\ partials[p].present
        /\ ~partials[q].present
        /\ partials' = [partials EXCEPT ![q] = partials[p]]
        /\ UNCHANGED <<now, pem, subs, loaded, builders, built>>
        /\ UNCHANGED sendVars

\* lines 283-289: add_sub_info(self, subscription_info) consumes the partial
AddSubInfo ==
    \E p \in DOMAIN partials, b \in DOMAIN builders, si \in DOMAIN subs :
        /\ partials[p].present
        /\ Unused(b)
        /\ builders' = [builders EXCEPT ![b] = add_sub_info(partials[p], si, now)]
        /\ partials' = [partials EXCEPT ![p] = NoPartial]
        /\ UNCHANGED <<now, pem, subs, loaded, built>>
        /\ UNCHANGED sendVars

\* lines 200-205: add_claim(&mut self, key, val)
AddClaim(names) ==
    \E b \in DOMAIN builders, key \in names, val \in ClaimValues :
        /\ builders[b].present
        /\ builders' = [InsertClaim(builders, b, key, val) EXCEPT
                            ![b].supplied[key] = val]
        /\ UNCHANGED <<now, pem, subs, loaded, partials, built>>
        /\ UNCHANGED sendVars

\* lines 208-213: build(self) consumes the builder
Build ==
    \E b \in DOMAIN builders :
        /\ builders[b].present
        /\ LET endpoint == Uri_from_str(subs[builders[b].subscription_info])
           IN IF ~endpoint.ok
              THEN built' = [built EXCEPT ![b] =
                                [result |-> BuildErr("InvalidUri", FALSE),
                                 builder |-> builders[b], at |-> now]]
              ELSE \E signature \in sign(builders[b].key, endpoint, builders[b].claims) :
                      built' = [built EXCEPT ![b] =
                                [result |-> signature, builder |-> builders[b], at |-> now]]
        /\ builders' = [builders EXCEPT ![b] = NoBuilder]
        /\ UNCHANGED <<now, pem, subs, loaded, partials>>
        /\ UNCHANGED sendVars

\* Time passes.
Tick ==
    /\ now < MaxTime
    /\ now' = now + 1
    /\ UNCHANGED <<pem, subs, loaded, partials, builders, built>>
    /\ UNCHANGED sendVars

VapidInit(inputs, destinations, ps, bs) ==
    /\ now = 0
    /\ pem \in inputs
    /\ subs = destinations
    /\ loaded = NotLoaded
    /\ partials = [p \in ps |-> NoPartial]
    /\ builders = [b \in bs |-> NoBuilder]
    /\ built = [b \in bs |-> NotBuilt]

----------------------------------------------------------------------------
(* One send *)

Init == SendInit({"s1"}) /\ VapidInit({Sec1Fixture}, TwoSubs, {}, {})

Next ==
    \/ \E s \in DOMAIN pc : ResponseHead(s, Headers)
    \/ \E s \in DOMAIN pc : RequestFails(s)
    \/ \E s \in DOMAIN pc : FrameArrives(s, Frames)
    \/ \E s \in DOMAIN pc : FrameFails(s)
    \/ \E s \in DOMAIN pc : BodyEnds(s)
    \/ \E s \in DOMAIN pc : Extend(s)
    \/ \E s \in DOMAIN pc : Check(s)
    \/ \E s \in DOMAIN pc : Parse(s, CodecResults)
    \/ \E s \in DOMAIN pc : Merge(s)

Spec == Init /\ [][Next]_vars

\* The scheduler runs every ready step of a send, and the transport answers
\* every await (the request, each frame read) with one of its answers.
Fairness ==
    \A s \in {"s1"} :
        /\ WF_vars(ResponseHead(s, Headers) \/ RequestFails(s))
        /\ WF_vars(FrameArrives(s, Frames) \/ FrameFails(s) \/ BodyEnds(s))
        /\ WF_vars(Extend(s))
        /\ WF_vars(Check(s))
        /\ WF_vars(Parse(s, CodecResults))
        /\ WF_vars(Merge(s))

FairSpec == Init /\ [][Next]_vars /\ Fairness

----------------------------------------------------------------------------
(* Two sends through clones of one client *)

ConcHeaders == {NoHeader, HeaderValue(<<"1", "2", "0">>)}
ConcFrames == {DataFrame(MAX_RESPONSE_SIZE \div 2), DataFrame(MAX_RESPONSE_SIZE + 1), Trailers}
ConcResults == {Ok, ServerError(None, "e1")}

ConcInit == SendInit({"s1", "s2"}) /\ VapidInit({Sec1Fixture}, TwoSubs, {}, {})

ConcNext ==
    \/ \E s \in DOMAIN pc : ResponseHead(s, ConcHeaders)
    \/ \E s \in DOMAIN pc : RequestFails(s)
    \/ \E s \in DOMAIN pc : FrameArrives(s, ConcFrames)
    \/ \E s \in DOMAIN pc : FrameFails(s)
    \/ \E s \in DOMAIN pc : BodyEnds(s)
    \/ \E s \in DOMAIN pc : Extend(s)
    \/ \E s \in DOMAIN pc : Check(s)
    \/ \E s \in DOMAIN pc : Parse(s, ConcResults)
    \/ \E s \in DOMAIN pc : Merge(s)

ConcSpec == ConcInit /\ [][ConcNext]_vars

----------------------------------------------------------------------------
(* The loaders, over every PEM text *)

PemInit == SendInit({}) /\ VapidInit(PemInputs, TwoSubs, {"p1"}, {"b1"})

PemNext ==
    \/ FromPem
    \/ FromPemNoSub

PemSpec == PemInit /\ [][PemNext]_vars

----------------------------------------------------------------------------
(* One builder, over every destination *)

VapidSpecInit ==
    SendInit({}) /\ VapidInit({Sec1Fixture, Pkcs8Fixture}, AllSubs, {}, {"b1"})

VapidNext ==
    \/ FromPem
    \/ AddClaim(ClaimNames)
    \/ Build
    \/ Tick

VapidSpec == VapidSpecInit /\ [][VapidNext]_vars

----------------------------------------------------------------------------
(* One partial builder reused for two destinations *)

ReuseInit ==
    SendInit({}) /\ VapidInit({Sec1Fixture, OtherFixture}, TwoSubs, {"p1", "p2"}, {"b1", "b2"})

ReuseNext ==
    \/ FromPemNoSub
    \/ Clone
    \/ AddSubInfo
    \/ AddClaim({"sub"})
    \/ Build
    \/ Tick

ReuseSpec == ReuseInit /\ [][ReuseNext]_vars

----------------------------------------------------------------------------
(* Claims about the send pipeline *)

Done(s) == pc[s] = "done"

\* C1: when no transport error occurs, send returns ResponseTooLarge exactly
\* when the delivered data bytes exceed 65536 after some frame (exactly 65536
\* is accepted); it aborts at the first frame that passes the ceiling, without
\* having called parse_response, and reads no frame afterwards.
SizeCapState ==
    \A s \in DOMAIN pc :
        /\ (Done(s) /\ outcome[s] # TransportError)
              => (outcome[s] = ResponseTooLarge <=> total[s] > 65536)
        /\ outcome[s] = ResponseTooLarge
              => /\ Done(s)
                 /\ total[s] - chunk[s].len <= 65536
                 /\ response[s] = Pending
                 /\ body[s] = 0

SizeCapStep ==
    \A s \in DOMAIN pc :
        outcome[s] = ResponseTooLarge
            => /\ total'[s] = total[s]
               /\ chunk'[s] = chunk[s]
               /\ response'[s] = response[s]
               /\ outcome'[s] = outcome[s]

SizeCap == [](SizeCapState) /\ [][SizeCapStep]_vars

SizeCapWitness ==
    \E s \in DOMAIN pc :
        /\ outcome[s] = ResponseTooLarge
        /\ chunk[s].len < 65536
        /\ total[s] - chunk[s].len = 65536

\* C2: after the body is read, the result is the codec result, except that a
\* ServerError without a hint gets the hint of the Retry-After header
\* ("120" gives 120 seconds, a missing or unparsable header gives none); a
\* hint of the codec is never overwritten, other results are returned as is.
HeaderHint(s) ==
    /\ header[s] = HeaderValue(<<"1", "2", "0">>) => retry_after[s] = Delay(120)
    /\ header[s] \in {NoHeader, OpaqueHeader, HeaderValue(<<>>),
                      HeaderValue(<<"s", "o", "o", "n">>),
                      HeaderValue(<<"1", "2", "0", "s">>)}
          => retry_after[s] = None

RetryAfterMerge ==
    \A s \in DOMAIN pc :
        (Done(s) /\ response[s] # Pending)
            => /\ HeaderHint(s)
               /\ outcome[s] =
                    IF response[s].kind = "ServerError" /\ response[s].retry_after = None
                    THEN [kind |-> "ServerError", retry_after |-> retry_after[s],
                          info |-> response[s].info]
                    ELSE response[s]

RetryAfterMergeWitness ==
    \E s \in DOMAIN pc :
        /\ Done(s)
        /\ response[s] = ServerError(None, "e1")
        /\ outcome[s] = ServerError(Delay(120), "e1")

\* C3 as stated: the accumulation buffer never holds more than 65536 bytes.
BufferCeiling == \A s \in DOMAIN pc : body[s] <= 65536

\* C3 as amended: the buffer holds at most 65536 bytes whenever send awaits
\* a frame and when the body goes to parse_response; between appending a
\* frame and the size check it holds at most 65536 bytes plus that frame.
BufferCeilingAtAwait ==
    \A s \in DOMAIN pc :
        /\ pc[s] # "check" => body[s] <= 65536
        /\ pc[s] = "check" => body[s] <= 65536 + chunk[s].len

BufferOverCeiling ==
    \E s \in DOMAIN pc : pc[s] = "check" /\ body[s] > 65536

\* C4 as stated: whenever the transport answers every await, send returns.
SendReturns == <>(\A s \in DOMAIN pc : Done(s))

\* C4 as amended: whenever the transport answers every await, send returns
\* exactly one outcome, unless the body stream goes on for ever handing out
\* frames that carry no data or zero-length data; such a stream keeps send
\* reading for ever.
EmptyFrameArrives ==
    \E s \in {"s1"} : FrameArrives(s, {f \in Frames : f.len = 0})

OneOutcome ==
    \A s \in DOMAIN pc :
        /\ Done(s) <=> outcome[s] # Pending
        /\ outcome[s] # Pending => outcome'[s] = outcome[s]

SendReturnsUnlessEmptyFrames ==
    /\ (<>(\A s \in DOMAIN pc : Done(s))) \/ []<><<EmptyFrameArrives>>_vars
    /\ [][OneOutcome]_vars

SendReturnsAfterEmptyFrames ==
    \E s \in DOMAIN pc :
        /\ Done(s)
        /\ outcome[s] = Ok
        /\ chunk[s] \in {Trailers, DataFrame(0)}
        /\ total[s] > 0

\* C9: sends through clones of one client are independent: a step of one send
\* changes nothing of another, and each send's byte count, Retry-After hint
\* and outcome are those of its own response alone, whatever the other does.
SendView(s) ==
    <<pc[s], header[s], response_status[s], retry_after[s], chunk[s], body[s],
      total[s], response[s], outcome[s]>>

OwnResponseOnly(s) ==
    /\ pc[s] \in {"frame", "parse", "merge"} => body[s] = total[s]
    /\ pc[s] \in {"got_frame", "check"} => body[s] \in {total[s], total[s] - chunk[s].len}
    /\ pc[s] # "request" /\ header[s] = NoHeader => retry_after[s] = None
    /\ header[s] = HeaderValue(<<"1", "2", "0">>) => retry_after[s] = Delay(120)
    /\ Done(s) =>
          \/ outcome[s] = TransportError /\ response[s] = Pending
          \/ outcome[s] = ResponseTooLarge /\ total[s] > 65536 /\ response[s] = Pending
          \/ /\ total[s] <= 65536
             /\ response[s] # Pending
             /\ outcome[s] =
                    IF response[s] = ServerError(None, response[s].info)
                    THEN ServerError(retry_after[s], response[s].info)
                    ELSE response[s]

OneSendSteps ==
    \A s, t \in DOMAIN pc :
        (s # t /\ SendView(s)' # SendView(s)) => SendView(t)' = SendView(t)

SendsIndependent ==
    /\ [](\A s \in DOMAIN pc : OwnResponseOnly(s))
    /\ [][OneSendSteps]_vars

SendsDiverge ==
    /\ outcome["s1"] = ResponseTooLarge
    /\ outcome["s2"] = ServerError(Delay(120), "e1")
    /\ total["s2"] = 65536

----------------------------------------------------------------------------
(* Claims about the key loaders and the builders *)

Recognized(p) == p.tag \in {"EC PRIVATE KEY", "PRIVATE KEY"}

RecognizedAt(bs) == {i \in 1..Len(bs) : Recognized(bs[i])}

First(I) == CHOOSE i \in I : \A j \in I : i <= j

\* The key a recognized block decodes to, taken alone
DecodedAlone(p) ==
    IF /\ p.key \in {"k1", "k2"}
       /\ \/ p.tag = "EC PRIVATE KEY" /\ p.fmt = "sec1"
          \/ p.tag = "PRIVATE KEY" /\ p.fmt = "pkcs8"
    THEN [kind |-> "Key", key |-> p.key]
    ELSE [kind |-> "InvalidCryptoKeys", key |-> "none"]

IsPemText(input) == input.utf8 /\ input.wellformed

\* C5: for a PEM text that is a sequence of blocks, read_pem's result is that
\* of the first block tagged `EC PRIVATE KEY` or `PRIVATE KEY` alone: the key
\* it decodes to, or InvalidCryptoKeys; blocks with other tags, before or
\* after it, change nothing.
FirstRecognizedBlockWins ==
    (loaded # NotLoaded /\ IsPemText(pem) /\ RecognizedAt(pem.blocks) # {})
        => loaded = DecodedAlone(pem.blocks[First(RecognizedAt(pem.blocks))])

\* C6: for a PEM text with no block tagged `EC PRIVATE KEY` or `PRIVATE KEY`
\* (only other blocks, or no block at all) from_pem and from_pem_no_sub fail
\* with MissingCryptoKeys and produce no builder.
MissingKeyKind ==
    (loaded # NotLoaded /\ IsPemText(pem) /\ RecognizedAt(pem.blocks) = {})
        => /\ loaded = [kind |-> "MissingCryptoKeys", key |-> "none"]
           /\ \A b \in DOMAIN builders : ~builders[b].present
           /\ \A p \in DOMAIN partials : ~partials[p].present

MissingKeyWitness ==
    /\ loaded.kind = "MissingCryptoKeys"
    /\ Len(pem.blocks) = 2
    /\ pem.blocks[1].tag = "EC PARAMETERS"

IsAbsoluteText(e) == e.legal /\ e.scheme # "" /\ e.host # ""

SchemeAndHost(si) ==
    CASE si = "a" -> Str("https://push.example.com")
      [] si = "b" -> Str("https://fcm.example.org")
      [] OTHER -> Absent

\* What the payload holds beside the expiry default: an audience and an
\* expiry always; the audience of the endpoint unless `aud` was added; the
\* value added under `exp` if any; every other claim as last supplied.
PayloadAsSupplied(b) ==
    LET r == built[b].result
        given == built[b].builder.supplied
    IN /\ r.aud # Absent
       /\ r.exp # Absent
       /\ r.aud = IF given["aud"] # Absent THEN given["aud"]
                  ELSE SchemeAndHost(built[b].builder.subscription_info)
       /\ given["exp"] # Absent => r.exp = given["exp"]
       /\ \A k \in ClaimNames \ {"aud", "exp"} : r.custom[k] = given[k]

SignedAbsolute(b) ==
    /\ built[b].result.kind = "Signature"
    /\ IsAbsoluteText(subs[built[b].builder.subscription_info])

\* C7 as stated: the signed claims hold an audience and an expiry; without an
\* override the audience is scheme and host of the endpoint and the expiry is
\* the signing time + 12 hours; `aud` and `exp` claims replace the defaults;
\* other claims appear as supplied, the last value winning.
ClaimsAtSigningTime ==
    \A b \in DOMAIN built :
        SignedAbsolute(b)
            => /\ PayloadAsSupplied(b)
               /\ built[b].builder.supplied["exp"] = Absent
                    => built[b].result.exp = Num(built[b].at + 12 * 3600)

\* C7 as amended: the same, except that the default expiry is 12 hours after
\* the time the builder was constructed (from_pem, add_sub_info), which is the
\* signing time only when build is called at once.
ClaimsAtConstructionTime ==
    \A b \in DOMAIN built :
        /\ SignedAbsolute(b)
            => /\ PayloadAsSupplied(b)
               /\ built[b].builder.supplied["exp"] = Absent
                    => built[b].result.exp = Num(built[b].builder.created + 12 * 3600)
        /\ builders[b].present
            => \A k \in ClaimNames : builders[b].claims.custom[k] = builders[b].supplied[k]

SignedLater ==
    \E b \in DOMAIN built :
        /\ SignedAbsolute(b)
        /\ built[b].at > built[b].builder.created
        /\ built[b].builder.supplied["exp"] = Absent
        /\ built[b].builder.supplied["aud"] = Absent
        /\ built[b].result.custom["sub"] = Num(123)

\* C8: build fails with InvalidUri, without calling the signer and without a
\* signature, for every endpoint that is no absolute URI (the empty string, a
\* bare path, ...); the constructors reject no destination.
InvalidUriAtBuild ==
    \A b \in DOMAIN built :
        /\ (built[b] # NotBuilt
              /\ ~IsAbsoluteText(subs[built[b].builder.subscription_info]))
              => /\ built[b].result.kind = "InvalidUri"
                 /\ ~built[b].result.signed
        /\ loaded.kind = "Key" => (builders[b].present \/ built[b] # NotBuilt)

\* C10: builders made from one partial builder share nothing but the key:
\* add_sub_info yields a builder with no custom claims and an expiry 12 hours
\* ahead, bound to the destination given; a claim added to one builder shows
\* in no other; the key of the partial builder, of every builder made from it
\* and the public key in every signature are those of the key loaded.
SameKey ==
    /\ \A p \in DOMAIN partials :
          partials[p].present => partials[p].key = loaded.key
    /\ \A b \in DOMAIN builders :
          /\ builders[b].present
                => /\ builders[b].key = loaded.key
                   /\ builders[b].claims.custom = builders[b].supplied
          /\ built[b].result.kind = "Signature"
                => /\ built[b].result.auth_k = (IF loaded.key = "k1" THEN "P1" ELSE "P2")
                   /\ built[b].result.custom = [built[b].builder.supplied EXCEPT
                                                    !["aud"] = Absent, !["exp"] = Absent]

FreshBuilder ==
    \A b \in DOMAIN builders :
        /\ (~builders[b].present /\ builders'[b].present)
              => /\ builders'[b].claims.custom = [k \in ClaimNames |-> Absent]
                 /\ builders'[b].claims.expires_at = now + 12 * 3600
                 /\ builders'[b].subscription_info \in DOMAIN subs
        /\ builders'[b] # builders[b]
              => \A c \in DOMAIN builders \ {b} : builders'[c] = builders[c]
        /\ (builders[b].present /\ builders'[b].present)
              => /\ builders'[b].subscription_info = builders[b].subscription_info
                 /\ builders'[b].claims.expires_at = builders[b].claims.expires_at
                 /\ builders'[b].key = builders[b].key

NoLeakAcrossDestinations == [](SameKey) /\ [][FreshBuilder]_vars

TwoDestinations ==
    /\ builders["b1"].present
    /\ builders["b2"].present
    /\ builders["b1"].subscription_info # builders["b2"].subscription_info
    /\ builders["b1"].claims.custom["sub"] # Absent
    /\ builders["b2"].claims.custom["sub"] = Absent
    /\ builders["b1"].created < builders["b2"].created

=============================================================================
